---- MODULE Spec2Model ----
(***************************************************************************)
(* Model of outputduplication.OutputDuplicator                             *)
(* (src/outputduplication/output_duplication.go).                          *)
(*                                                                         *)
(* The duplicator is a single-threaded object driven by one capture loop.  *)
(* Its state is the Go struct `dup`; the Display Duplication Provider is   *)
(* an external collaborator whose answers are inputs of every call.  Each  *)
(* exported method is one action.  `calls` is the log of what the last     *)
(* method did to its collaborators (provider calls, COM Release calls,     *)
(* GPU copies, slice allocations), in program order.                       *)
(***************************************************************************)
EXTENDS Integers, Sequences, FiniteSets, TLC

VARIABLES
    dup,        \* the OutputDuplicator struct
    held,       \* provider side: a frame acquired by AcquireNextFrame is unreleased
    calls,      \* log of the collaborator calls made by the last method
    lastOp,     \* the last method called
    result,     \* what the last method returned
    seenDescs,  \* source dimensions observed so far: the last one and the set of all
    env,        \* which part of the provider's behaviour this run varies
    img,        \* the caller's image.RGBA, handed to GetImage and DrawCursor
    tex,        \* GPU side: the content of the staging texture dup.stagedTex
    loop        \* where a Snapshot followed pass by pass is in its rect loops (else nil)

vars == <<dup, held, calls, lastOp, result, seenDescs, env, img, tex, loop>>

----------------------------------------------------------------------------
(* Bounds of the model *)

\* largest number of dirty rects one frame reports
MaxRects == 2

\* largest number of moved rects one frame reports
MaxMoves == 1

\* source widths range over 1..MaxWidth
MaxWidth == 2

\* true heights of monochrome pointer shapes range over 1..MaxShapeHeight
MaxShapeHeight == 2

\* the row pitch of a pointer shape exceeds its content by 0..MaxShapePad bytes
MaxShapePad == 1

\* most bytes of padding after a mapped row
MaxPad == 1

\* largest count a provider reports as required
MaxRequired == 2

----------------------------------------------------------------------------
(* Values *)

\* A Go pointer or interface value: <<>> is nil, <<x>> points to x.
Nil == <<>>
Ptr(x) == <<x>>
IsNil(p) == p = <<>>

Failed(hr) == hr # "S_OK"

POINT(x, y) == [X |-> x, Y |-> y]

\* dimensions a source description (output mode, desktop texture) can report
Dims == {[Width |-> w, Height |-> 1] : w \in 1..MaxWidth}

RECT(l, t, r, b) == [Left |-> l, Top |-> t, Right |-> r, Bottom |-> b]

\* the i-th rect a frame reports as dirty
DirtyRect(i) == RECT(i - 1, 0, i, 1)

ZeroRect == RECT(0, 0, 0, 0)

\* a moved rect: source point and destination rect (its content is never read)
MoveRect == [SourcePoint |-> POINT(0, 0), DestinationRect |-> RECT(0, 0, 1, 1)]

ZeroMoveRect == [SourcePoint |-> POINT(0, 0), DestinationRect |-> ZeroRect]

\* the dirty rects and the moved rects a frame can report
RectLists == {[i \in 1..n |-> DirtyRect(i)] : n \in 0..MaxRects}

MoveLists == {[i \in 1..n |-> MoveRect] : n \in 0..MaxMoves}

\* A Go slice: its capacity and its elements (len is Len(data)).
Slice(c, d) == [cap |-> c, data |-> d]

\* make([]T, n): a fresh array of n zero values
make(n, zero) == Slice(n, [i \in 1..n |-> zero])

ShapeTypes == {"MONOCHROME", "COLOR", "MASKED_COLOR", "OTHER"}

\* DXGI_OUTDUPL_POINTER_SHAPE_INFO of the one shape the provider hands out
ShapeInfo(type) == [Type |-> type, Width |-> 1, Height |-> 2, Pitch |-> 4]

\* PointerShapeBufferSize of that shape: Pitch * Height bytes
ShapeBytes == ShapeInfo("COLOR").Pitch * ShapeInfo("COLOR").Height

\* the bytes of that shape.  Read as MONOCHROME: an AND row and an XOR row of
\* one pixel with both bits set; read as COLOR: two rows of one BGRA pixel.
ShapeData(type) == <<128, 2, 3, 255, 128, 0, 0, 0>>

\* A Go []byte is the sequence of its bytes; Go indexes from 0.
Zeros(n) == [k \in 1..n |-> 0]

Min(a, b) == IF a < b THEN a ELSE b

\* copy(dst[at:], src): as many bytes as both hold
CopyBytes(dst, at, src) ==
    [k \in 1..Len(dst) |->
        IF k > at /\ k <= at + Len(src) THEN src[k - at] ELSE dst[k]]

\* The content of a 2D texture of 4-byte pixels: its rows, without padding.
Texture(w, h, bits) == [Width |-> w, Height |-> h, bits |-> bits]

\* a texture of the dimensions of desc d whose bytes all are `fill`
FilledTexture(d, fill) ==
    Texture(d.Width, d.Height, [k \in 1..(4 * d.Width * d.Height) |-> fill])

\* deviceCtx.CopyResource2D(dst, src): all of src; the call is dropped when the
\* two resources differ in dimensions
CopyResource2D(dst, src) ==
    IF dst.Width = src.Width /\ dst.Height = src.Height THEN src ELSE dst

\* deviceCtx.CopySubresourceRegion2D(dst, 0, dstX, dstY, 0, src, 0, &box): the
\* pixels of src inside box land in dst from (dstX, dstY) on
CopySubresourceRegion2D(dst, dstX, dstY, src, box) ==
    [dst EXCEPT !.bits =
        [k \in 1..Len(dst.bits) |->
            LET x  == ((k - 1) \div 4) % dst.Width
                y  == ((k - 1) \div 4) \div dst.Width
                sx == box.Left + (x - dstX)
                sy == box.Top + (y - dstY)
            IN IF /\ x >= dstX /\ sx < box.Right /\ sx < src.Width
                  /\ y >= dstY /\ sy < box.Bottom /\ sy < src.Height
               THEN src.bits[(sy * src.Width + sx) * 4 + ((k - 1) % 4) + 1]
               ELSE dst.bits[k]]]

\* the byte the provider leaves in the padding of mapped rows
PadByte == 170

\* DXGI_MAPPED_RECT of a mapped texture: rows `Pitch` bytes apart, each padded
\* by pad bytes
Mapped(texture, pad) ==
    LET pitch == 4 * texture.Width + pad IN
    [Pitch |-> pitch,
     PBits |-> [k \in 1..(pitch * texture.Height) |->
                  LET y == (k - 1) \div pitch
                      b == (k - 1) % pitch
                  IN IF b < 4 * texture.Width
                     THEN texture.bits[y * 4 * texture.Width + b + 1]
                     ELSE PadByte]]

\* one entry of the call log
Call(s, name, arg) == [call |-> name, held |-> s.held, arg |-> arg]

Log(s, name, arg) == [s EXCEPT !.calls = Append(@, Call(s, name, arg))]

----------------------------------------------------------------------------
(* ReleaseFrame, Release *)

\* ReleaseFrame that clears the flag without telling the provider
ReleaseFrame_FlagOnly(s) ==
    IF s.dup.acquiredFrame
    THEN [s EXCEPT !.dup.acquiredFrame = FALSE]
    ELSE s

\* ReleaseFrame that tells the provider and leaves the flag set
ReleaseFrame_KeepFlag(s) ==
    IF s.dup.acquiredFrame
    THEN [Log(s, "ReleaseFrame", <<>>) EXCEPT !.held = FALSE]
    ELSE s

\* func (dup *OutputDuplicator) ReleaseFrame()
ReleaseFrame(s) ==
    IF s.dup.acquiredFrame
    THEN [Log(s, "ReleaseFrame", <<>>) EXCEPT !.held = FALSE,
                                               !.dup.acquiredFrame = FALSE]
    ELSE s

\* if dup.<field> != nil { dup.<field>.Release(); dup.<field> = nil }
ReleaseField(s, f) ==
    IF ~IsNil(s.dup[f])
    THEN [Log(s, "Release", f) EXCEPT !.dup[f] = Nil,
                                      !.tex = IF f = "stagedTex" THEN Nil ELSE @]
    ELSE s

\* func (dup *OutputDuplicator) Release()
Release(s) ==
    ReleaseField(ReleaseField(ReleaseField(ReleaseField(ReleaseFrame(s),
        "stagedTex"), "surface"), "outputDuplication"), "dxgiOutput")

----------------------------------------------------------------------------
(* initializeStage *)

\* initializeStage that creates the texture and its surface and forgets dup.size
initializeStage_NoSize(s, p) ==
    IF Failed(p.texDescHr) \/ Failed(p.createTexHr) \/ Failed(p.qiSurfaceHr)
    THEN [s |-> s, hr |-> "E_FAIL"]
    ELSE [s  |-> [Log(s, "CreateTexture2D", p.createTexHr)
                     EXCEPT !.dup.stagedTex = Ptr(p.texDesc),
                            !.tex = Ptr(FilledTexture(p.texDesc, p.texFill)),
                            !.dup.surface = Ptr(p.texDesc)],
          hr |-> "S_OK"]

\* func (dup *OutputDuplicator) initializeStage(texture) int32
\* p.texDesc is the desc of the desktop texture; returns the state and the hr
initializeStage(s, p) ==
    LET s1 == Log(s, "texture.GetDesc", p.texDescHr) IN
    IF Failed(p.texDescHr) THEN [s |-> s1, hr |-> p.texDescHr]
    ELSE
    LET s2 == Log(s1, "CreateTexture2D", p.createTexHr) IN
    IF Failed(p.createTexHr) THEN [s |-> s2, hr |-> p.createTexHr]
    ELSE
    LET s3 == [s2 EXCEPT !.dup.stagedTex = Ptr(p.texDesc),
                         !.tex = Ptr(FilledTexture(p.texDesc, p.texFill))]
        s4 == Log(s3, "stagedTex.QueryInterface", p.qiSurfaceHr)
    IN
    IF Failed(p.qiSurfaceHr) THEN [s |-> s4, hr |-> p.qiSurfaceHr]
    ELSE [s  |-> [s4 EXCEPT !.dup.surface = Ptr(p.texDesc),
                            !.dup.size = POINT(p.texDesc.Width, p.texDesc.Height)],
          hr |-> "S_OK"]

----------------------------------------------------------------------------
(* updatePointer *)

\* image.NewRGBA(image.Rect(0, 0, w, h)): Stride is 4 * w, Pix is all zero
NewRGBA(w, h) == [Width |-> w, Height |-> h, Pix |-> Zeros(4 * w * h)]

\* m.At(i, j) of an image.RGBA m: the bytes R, G, B, A of pixel (i, j)
PixelAt(m, i, j) == [c \in 1..4 |-> m.Pix[(j * m.Width + i) * 4 + c]]

\* (b & (0x80 >> (i % 8))) != 0
MaskBit(b, i) == (b \div (2 ^ (7 - (i % 8)))) % 2 = 1

\* the four bytes the switch on (andBit, xorBit) stores at out_pixels[outIndex],
\* a uint32 written in little-endian byte order
MonochromePixel(andBit, xorBit) ==
    CASE ~andBit /\ ~xorBit -> <<0, 0, 0, 0>>
      [] ~andBit /\ xorBit  -> <<255, 255, 255, 255>>
      [] andBit /\ ~xorBit  -> <<0, 0, 0, 0>>
      [] andBit /\ xorBit   -> <<0, 0, 0, 255>>

\* case MONOCHROME: the Pix of shapeOutBuffer after the two loops over j, i
DecodeMonochrome(pi, in, out) ==
    LET width      == pi.Width
        height     == pi.Height \div 2
        xor_offset == pi.Pitch * height
        widthBytes == (width + 7) \div 8
    IN [k \in 1..Len(out) |->
          LET q == (k - 1) \div 4
              j == q \div width
              i == q % width
              byteIndex == j * widthBytes + i \div 8
          IN IF j < height
             THEN MonochromePixel(MaskBit(in[byteIndex + 1], i),
                                  MaskBit(in[xor_offset + byteIndex + 1], i))[((k - 1) % 4) + 1]
             ELSE out[k]]

\* case COLOR, MASKED_COLOR: each row copied trimmed to width * 4 bytes, then
\* bytes 0 and 2 of every pixel of out swapped
DecodeColor(pi, in, out) ==
    LET width == pi.Width IN
    [k \in 1..Len(out) |->
        LET q == (k - 1) \div 4
            j == q \div width
            c == (k - 1) % 4
            from == CASE c = 0 -> 2 [] c = 2 -> 0 [] OTHER -> c
        IN in[j * pi.Pitch + (q % width) * 4 + from + 1]]

\* the switch on pointerInfo.Type: the decoded shape size and buffer
DecodeShape(s, pi) ==
    LET in  == s.dup.pointerInfo.shapeInBuffer
        out == s.dup.pointerInfo.shapeOutBuffer[1].Pix
    IN
    CASE pi.Type = "MONOCHROME" ->
           [s EXCEPT !.dup.pointerInfo.size = POINT(pi.Width, pi.Height \div 2),
                     !.dup.pointerInfo.shapeOutBuffer[1].Pix = DecodeMonochrome(pi, in, out)]
      [] pi.Type \in {"COLOR", "MASKED_COLOR"} ->
           [s EXCEPT !.dup.pointerInfo.size = POINT(pi.Width, pi.Height),
                     !.dup.pointerInfo.shapeOutBuffer[1].Pix = DecodeColor(pi, in, out)]
      [] OTHER ->
           [s EXCEPT !.dup.pointerInfo.size = POINT(0, 0)]

\* updatePointer without the early return on LastMouseUpdateTime == 0
updatePointer_NoTimeCheck(s, info, p) ==
    [s   |-> [s EXCEPT !.dup.pointerInfo.visible = info.PointerPosition.Visible,
                       !.dup.pointerInfo.pos = info.PointerPosition.Position],
     err |-> Nil]

\* func (dup *OutputDuplicator) updatePointer(info) error
\* returns the state and the error (Nil for a nil error)
updatePointer(s, info, p) ==
    IF info.LastMouseUpdateTime = 0 THEN [s |-> s, err |-> Nil]
    ELSE
    LET s1 == [s EXCEPT !.dup.pointerInfo.visible = info.PointerPosition.Visible,
                        !.dup.pointerInfo.pos = info.PointerPosition.Position]
    IN
    IF info.PointerShapeBufferSize = 0 THEN [s |-> s1, err |-> Nil]
    ELSE
    LET s2 == IF Len(s1.dup.pointerInfo.shapeInBuffer) < info.PointerShapeBufferSize
              THEN Log([s1 EXCEPT !.dup.pointerInfo.shapeInBuffer =
                                      Zeros(info.PointerShapeBufferSize)],
                       "make", <<"shapeInBuffer", info.PointerShapeBufferSize>>)
              ELSE s1
        \* the provider writes the shape into the buffer when it succeeds
        s3 == Log(IF Failed(p.shapeHr) THEN s2
                  ELSE [s2 EXCEPT !.dup.pointerInfo.shapeInBuffer =
                                      CopyBytes(@, 0, p.shapeData)],
                  "GetFramePointerShape", <<p.shapeHr, p.shapeInfo, p.shapeData>>)
    IN
    IF Failed(p.shapeHr)
    THEN [s |-> s3, err |-> Ptr("unable to obtain frame pointer shape")]
    ELSE
    LET pi == p.shapeInfo
        s4 == [s3 EXCEPT !.dup.pointerInfo.shapeOutBuffer =
                             Ptr(NewRGBA(pi.Width, pi.Height))]
    IN [s   |-> DecodeShape(s4, pi),
        err |-> IF pi.Type \in {"MONOCHROME", "COLOR", "MASKED_COLOR"}
                THEN Nil ELSE Ptr("unsupported type")]

----------------------------------------------------------------------------
(* analyzeBackgroundBrightness, drawPointer *)

sampleSize == 20

\* gray levels v whose float64 sum 0.299*v + 0.587*v + 0.114*v falls just below
\* v, with or without fused multiply-add, so that the conversion to uint64
\* yields v - 1
GraysRoundedDown ==
    {1, 2, 4, 8, 13, 16, 26, 32, 39, 52, 57, 59, 64, 78, 81, 91, 95, 104,
     114, 118, 127, 128, 149, 156, 162, 169, 175, 182, 190, 195, 203, 208,
     223, 228, 235, 236, 241, 249, 254}

\* brightness := uint64(0.299*float64(r>>8) + 0.587*float64(g>>8) + 0.114*float64(b>>8))
\* of the bytes of one pixel
Luma(px) ==
    LET exact == (299 * px[1] + 587 * px[2] + 114 * px[3]) \div 1000 IN
    IF px[1] = px[2] /\ px[2] = px[3] /\ px[1] \in GraysRoundedDown
    THEN exact - 1 ELSE exact

\* x, y inside the cursor's own area
InFootprint(pi, x, y) ==
    /\ x >= pi.pos.X /\ x < pi.pos.X + pi.size.X
    /\ y >= pi.pos.Y /\ y < pi.pos.Y + pi.size.Y

\* the two loops over y, x of analyzeBackgroundBrightness from pixel number n
\* of the box startX..endX, startY..endY on: totalBrightness and pixelCount
RECURSIVE SampleBox(_, _, _, _, _)
SampleBox(pi, m, box, n, acc) ==
    LET w == box.endX - box.startX + 1
        h == box.endY - box.startY + 1
    IN
    IF w <= 0 \/ h <= 0 \/ n >= w * h THEN acc
    ELSE LET x == box.startX + (n % w)
             y == box.startY + (n \div w)
         IN SampleBox(pi, m, box, n + 1,
                IF InFootprint(pi, x, y) THEN acc
                ELSE [totalBrightness |-> acc.totalBrightness + Luma(PixelAt(m, x, y)),
                      pixelCount      |-> acc.pixelCount + 1])

\* analyzeBackgroundBrightness that counts a mean of exactly 80 as light
analyzeBackgroundBrightness_Inclusive(pi, m) ==
    LET clipLow(v)     == IF v < 0 THEN 0 ELSE v
        clipHigh(v, max) == IF v >= max THEN max - 1 ELSE v
        box == [startX |-> clipLow(pi.pos.X - sampleSize),
                startY |-> clipLow(pi.pos.Y - sampleSize),
                endX   |-> clipHigh(pi.pos.X + pi.size.X + sampleSize, m.Width),
                endY   |-> clipHigh(pi.pos.Y + pi.size.Y + sampleSize, m.Height)]
        sum == SampleBox(pi, m, box, 0, [totalBrightness |-> 0, pixelCount |-> 0])
    IN IF sum.pixelCount = 0 THEN FALSE
       ELSE (sum.totalBrightness \div sum.pixelCount) >= 80

\* func (dup *OutputDuplicator) analyzeBackgroundBrightness(img) bool
\* pi: dup.pointerInfo, m: the image; TRUE for a light background
analyzeBackgroundBrightness(pi, m) ==
    LET clipLow(v)     == IF v < 0 THEN 0 ELSE v
        clipHigh(v, max) == IF v >= max THEN max - 1 ELSE v
        box == [startX |-> clipLow(pi.pos.X - sampleSize),
                startY |-> clipLow(pi.pos.Y - sampleSize),
                endX   |-> clipHigh(pi.pos.X + pi.size.X + sampleSize, m.Width),
                endY   |-> clipHigh(pi.pos.Y + pi.size.Y + sampleSize, m.Height)]
        sum == SampleBox(pi, m, box, 0, [totalBrightness |-> 0, pixelCount |-> 0])
    IN IF sum.pixelCount = 0 THEN FALSE
       ELSE (sum.totalBrightness \div sum.pixelCount) > 80

\* drawPointer that also writes the pixels whose alpha is 0
drawPointer_NoSkip(s) ==
    LET m  == s.img[1]
        pi == s.dup.pointerInfo
        isLightBackground == analyzeBackgroundBrightness(pi, m)
        drawn(x, y, c) ==
            LET col == PixelAt(pi.shapeOutBuffer[1], x - pi.pos.X, y - pi.pos.Y) IN
            IF col = <<0, 0, 0, 255>>
            THEN IF isLightBackground THEN <<0, 0, 0, 255>>[c]
                 ELSE <<255, 255, 255, 255>>[c]
            ELSE col[c]
    IN [s EXCEPT !.img[1].Pix =
           [k \in 1..Len(m.Pix) |->
               LET x == ((k - 1) \div 4) % m.Width
                   y == ((k - 1) \div 4) \div m.Width
               IN IF InFootprint(pi, x, y) THEN drawn(x, y, ((k - 1) % 4) + 1)
                  ELSE m.Pix[k]]]

\* func (dup *OutputDuplicator) drawPointer(img) error
\* img.Set(pos.X+i, pos.Y+j, col) writes pixel (x, y) when it lies in the
\* image; every pixel of the image is the target of at most one (i, j)
drawPointer(s) ==
    LET m  == s.img[1]
        pi == s.dup.pointerInfo
        isLightBackground == analyzeBackgroundBrightness(pi, m)
        drawn(x, y, c) ==
            LET col == PixelAt(pi.shapeOutBuffer[1], x - pi.pos.X, y - pi.pos.Y) IN
            IF col[4] = 0 THEN m.Pix[(y * m.Width + x) * 4 + c]
            ELSE IF col = <<0, 0, 0, 255>>
                 THEN IF isLightBackground THEN <<0, 0, 0, 255>>[c]
                      ELSE <<255, 255, 255, 255>>[c]
                 ELSE col[c]
    IN [s EXCEPT !.img[1].Pix =
           [k \in 1..Len(m.Pix) |->
               LET x == ((k - 1) \div 4) % m.Width
                   y == ((k - 1) \div 4) \div m.Width
               IN IF InFootprint(pi, x, y) THEN drawn(x, y, ((k - 1) % 4) + 1)
                  ELSE m.Pix[k]]]

\* func (dup *OutputDuplicator) DrawCursor(img) error
DrawCursor(s) == drawPointer(s)

----------------------------------------------------------------------------
(* Rect enumeration and the copy into the staging texture *)

\* The provider's GetFrameMoveRects / GetFrameDirtyRects on a buffer of bufLen
\* elements, for a frame that carries the rects `rects`: a failure hr, "more
\* data" with the required count when the buffer is too small, else the rects.
GetFrameRects(bufLen, hr, rects) ==
    IF Failed(hr) THEN [hr |-> hr, required |-> 0]
    ELSE IF bufLen < Len(rects)
         THEN [hr |-> "DXGI_ERROR_MORE_DATA", required |-> Len(rects)]
         ELSE [hr |-> "S_OK", required |-> Len(rects)]

ZeroOf(which) == IF which = "movedRects" THEN ZeroMoveRect ELSE ZeroRect

\* the loop body that calls the provider with the buffer as it is
enumRectsStep_NoGrow(s, which, required, provider) ==
    LET ans == provider[Len(s.dup[which].data)]
        s2  == Log(s, "GetFrame:" \o which,
                   <<ans.hr, IF Failed(ans.hr) THEN <<>> ELSE ans.rects>>)
    IN
    IF Failed(ans.hr)
    THEN IF ans.hr = "DXGI_ERROR_MORE_DATA"
         THEN [s |-> s2, next |-> "continue", required |-> ans.required]
         ELSE [s |-> s2, next |-> "return", required |-> ans.required]
    ELSE [s |-> [s2 EXCEPT !.dup[which].data = ans.rects],
          next |-> "break", required |-> ans.required]

\* one pass through the body of
\* for { if len(buf) < required { buf = make(required) }; hr = GetFrame...Rects(buf, &required)
\*       MORE_DATA: continue; other failure: return; buf = buf[:required]; break }
\* which: the field of dup ("movedRects" / "dirtyRects"); provider: the answer
\* [hr, required, rects] of GetFrame...Rects by the length of the buffer it is
\* given; returns the state, how the pass ends and the required count
enumRectsStep(s, which, required, provider) ==
    LET s1  == IF Len(s.dup[which].data) < required
               THEN Log([s EXCEPT !.dup[which] = make(required, ZeroOf(which))],
                        "make", <<which, required>>)
               ELSE s
        ans == provider[Len(s1.dup[which].data)]
        s2  == Log(s1, "GetFrame:" \o which,
                   <<ans.hr, IF Failed(ans.hr) THEN <<>> ELSE ans.rects>>)
    IN
    IF Failed(ans.hr)
    THEN IF ans.hr = "DXGI_ERROR_MORE_DATA"
         THEN [s |-> s2, next |-> "continue", required |-> ans.required]
         ELSE [s |-> s2, next |-> "return", required |-> ans.required]
    ELSE [s |-> [s2 EXCEPT !.dup[which].data = ans.rects],
          next |-> "break", required |-> ans.required]

\* the provider of a frame that carries `rects` and whose call answers hr
FrameProvider(hr, rects) ==
    [n \in 0..(MaxRects + MaxMoves + MaxRequired) |-> GetFrameRects(n, hr, rects) @@ [rects |-> rects]]

\* the whole loop; returns the state and whether the loop left with a failure
RECURSIVE enumRects(_, _, _, _, _)
enumRects(s, which, required, hr, rects) ==
    LET r == enumRectsStep(s, which, required, FrameProvider(hr, rects)) IN
    IF r.next = "continue"
    THEN enumRects(r.s, which, r.required, hr, rects)
    ELSE [s |-> r.s, failed |-> r.next = "return"]

\* for i := 0; i < len(dup.dirtyRects); i++ { CopySubresourceRegion2D(...) }
RECURSIVE CopyDirtyRects(_, _)
CopyDirtyRects(s, i) ==
    IF i > Len(s.dup.dirtyRects.data) THEN s
    ELSE LET r == s.dup.dirtyRects.data[i] IN
         CopyDirtyRects(
             [Log(s, "CopySubresourceRegion2D",
                  [dstX |-> r.Left, dstY |-> r.Top, box |-> r])
                 EXCEPT !.tex[1] = CopySubresourceRegion2D(@, r.Left, r.Top, s.desktop[1], r)],
             i + 1)

\* the copy with metadata that never falls back to the whole image
CopyWithMetadata_AlwaysDirty(s) == CopyDirtyRects(s, 1)

\* dup.deviceCtx.CopyResource2D(dup.stagedTex, desktop2d)
CopyWhole(s) ==
    [Log(s, "CopyResource2D", <<>>) EXCEPT !.tex[1] = CopyResource2D(@, s.desktop[1])]

\* the copy with metadata that also marks the frame as needing no swizzle
CopyWithMetadata_ClearSwizzle(s) ==
    [(IF Len(s.dup.movedRects.data) = 0
      THEN CopyDirtyRects(s, 1)
      ELSE CopyWhole(s)) EXCEPT !.dup.needsSwizzle = FALSE]

\* the copy with metadata whose dirty-rect branch marks the frame for swizzling
CopyWithMetadata_SwizzleDirty(s) ==
    IF Len(s.dup.movedRects.data) = 0
    THEN [CopyDirtyRects(s, 1) EXCEPT !.dup.needsSwizzle = TRUE]
    ELSE CopyWhole(s)

\* if len(dup.movedRects) == 0 { per dirty rect } else { whole image }
CopyWithMetadata(s) ==
    IF Len(s.dup.movedRects.data) = 0
    THEN CopyDirtyRects(s, 1)
    ELSE CopyWhole(s)

\* else branch of TotalMetadataBufferSize > 0: copy whole image, set needsSwizzle
CopyWithoutMetadata(s) ==
    [CopyWhole(s) EXCEPT !.dup.needsSwizzle = TRUE]

\* if frameInfo.TotalMetadataBufferSize > 0 { ... } else { ... }
\* returns the state and the error (Nil for none)
CopyFrame(s, info, p) ==
    IF info.TotalMetadataBufferSize > 0
    THEN LET m == enumRects(s, "movedRects", 1, p.moveHr, p.moveRects) IN
         IF m.failed THEN [s |-> m.s, err |-> Ptr("failed to GetFrameMoveRects")]
         ELSE
         LET d == enumRects(m.s, "dirtyRects", 1, p.dirtyHr, p.dirtyRects) IN
         IF d.failed THEN [s |-> d.s, err |-> Ptr("failed to GetFrameDirtyRects")]
         ELSE [s |-> CopyWithMetadata(d.s), err |-> Nil]
    ELSE [s |-> CopyWithoutMetadata(s), err |-> Nil]

----------------------------------------------------------------------------
(* Snapshot *)

\* what a method returns: kind is "ok", "ErrNoImageYet", "error" or "panic";
\* detail is the error text or, for "ok", the path taken; size and mapped are
\* *dup.size and *dup.mappedRect as handed to the caller
Return(s, kind, detail) ==
    [s      |-> s,
     result |-> [kind |-> kind, detail |-> detail,
                 size |-> IF kind = "ok" THEN Ptr(s.dup.size) ELSE Nil,
                 mapped |-> IF kind = "ok" THEN Ptr(s.mappedRect) ELSE Nil]]

\* defer dup.ReleaseFrame(); defer desktop.Release()   (run last-in first-out)
DeferFrame(r) == [r EXCEPT !.s = ReleaseFrame(Log(@, "desktop.Release", <<>>))]

\* defer desktop2d.Release(), before the two above
DeferTexture(r) == DeferFrame([r EXCEPT !.s = Log(@, "desktop2d.Release", <<>>)])

\* hr = dup.surface.Map(...); return ...      (a nil dup.surface panics)
MapStage(s, p) ==
    IF IsNil(s.dup.surface)
    THEN Return(s, "panic", "nil pointer dereference: dup.surface")
    ELSE LET s1 == Log(s, "surface.Map", p.mapHr) IN
         IF Failed(p.mapHr)
         THEN Return(s1, "error", "failed to surface_.Map")
         ELSE Return([s1 EXCEPT !.mappedRect = Mapped(s1.tex[1], p.pitchPad)],
                     "ok", "staging")

\* Snapshot from desktop.QueryInterface to the end, desktop2d.Release deferred
StageAndCopy(s, info, p) ==
    LET i == IF IsNil(s.dup.stagedTex)
             THEN initializeStage(s, p)
             ELSE [s |-> s, hr |-> "S_OK"]
    IN
    IF Failed(i.hr) THEN Return(i.s, "error", "failed to InitializeStage")
    ELSE
    LET c == CopyFrame(i.s, info, p) IN
    IF ~IsNil(c.err) THEN Return(c.s, "error", c.err[1])
    ELSE MapStage(c.s, p)

\* WithFrame that updates the pointer whether or not UpdatePointerInfo is set
WithFrame_AlwaysUpdate(s, info, p) ==
    LET u == updatePointer(s, info, p) IN
    IF ~IsNil(u.err) THEN Return(u.s, "error", u.err[1])
    ELSE IF info.AccumulatedFrames = 0 THEN Return(u.s, "ErrNoImageYet", "no frames")
    ELSE
    LET s1 == Log(u.s, "desktop.QueryInterface", p.qiTexHr) IN
    IF Failed(p.qiTexHr)
    THEN Return(s1, "error", "failed to QueryInterface(iid_ID3D11Texture2D, ...)")
    ELSE DeferTexture(StageAndCopy(s1, info, p))

\* Snapshot after a successful AcquireNextFrame, the frame's release deferred
WithFrame(s, info, p) ==
    LET u == IF s.dup.UpdatePointerInfo
             THEN updatePointer(s, info, p)
             ELSE [s |-> s, err |-> Nil]
    IN
    IF ~IsNil(u.err) THEN Return(u.s, "error", u.err[1])
    ELSE IF info.AccumulatedFrames = 0 THEN Return(u.s, "ErrNoImageYet", "no frames")
    ELSE
    LET s1 == Log(u.s, "desktop.QueryInterface", p.qiTexHr) IN
    IF Failed(p.qiTexHr)
    THEN Return(s1, "error", "failed to QueryInterface(iid_ID3D11Texture2D, ...)")
    ELSE DeferTexture(StageAndCopy(s1, info, p))

\* AcquireFrame that releases the frame as soon as it has the frame info
AcquireFrame_ReleaseEarly(s, p) ==
    LET s1 == ReleaseFrame(s)
        s2 == [Log(s1, "AcquireNextFrame", <<p.acquireHr, p.frameInfo, p.desktop>>)
                  EXCEPT !.held = s1.held \/ ~Failed(p.acquireHr),
                         !.desktop = IF Failed(p.acquireHr) THEN Nil ELSE Ptr(p.desktop),
                         !.dup.acquiredFrame = TRUE]
    IN
    IF Failed(p.acquireHr)
    THEN IF p.acquireHr = "DXGI_ERROR_WAIT_TIMEOUT"
         THEN Return(s2, "ErrNoImageYet", "timeout")
         ELSE Return(s2, "error", "failed to AcquireNextFrame")
    ELSE WithFrame(ReleaseFrame(Log(s2, "desktop.Release", <<>>)), p.frameInfo, p)

\* dup.ReleaseFrame(); hrF := AcquireNextFrame(...); dup.acquiredFrame = true; ...
AcquireFrame(s, p) ==
    LET s1 == ReleaseFrame(s)
        s2 == [Log(s1, "AcquireNextFrame", <<p.acquireHr, p.frameInfo, p.desktop>>)
                  EXCEPT !.held = s1.held \/ ~Failed(p.acquireHr),
                         !.desktop = IF Failed(p.acquireHr) THEN Nil ELSE Ptr(p.desktop),
                         !.dup.acquiredFrame = TRUE]
    IN
    IF Failed(p.acquireHr)
    THEN IF p.acquireHr = "DXGI_ERROR_WAIT_TIMEOUT"
         THEN Return(s2, "ErrNoImageYet", "timeout")
         ELSE Return(s2, "error", "failed to AcquireNextFrame")
    ELSE DeferFrame(WithFrame(s2, p.frameInfo, p))

\* func (dup *OutputDuplicator) Snapshot(timeoutMs) (unmapFn, *MAPPED_RECT, *POINT, error)
\* p: the provider's answers during the call
Snapshot(s, p) ==
    IF IsNil(s.dup.outputDuplication)
    THEN Return(s, "panic", "nil pointer dereference: dup.outputDuplication")
    ELSE
    LET s1 == Log(s, "GetDesc", <<p.descHr, p.desc>>) IN
    IF Failed(p.descHr) THEN Return(s1, "error", "failed to get the description")
    ELSE
    LET fast == p.desc.DesktopImageInSystemMemory
        s2   == IF fast
                THEN Log([s1 EXCEPT !.dup.size = POINT(p.desc.ModeDesc.Width,
                                                       p.desc.ModeDesc.Height),
                                    !.mappedRect =
                                        IF Failed(p.mapDesktopHr) THEN @
                                        ELSE Mapped(p.desktop, p.pitchPad)],
                         "MapDesktopSurface", p.mapDesktopHr)
                ELSE s1
    IN
    IF fast /\ ~Failed(p.mapDesktopHr)
    THEN Return(s2, "ok", "fast")
    ELSE AcquireFrame(s2, p)

\* the row loop that advances the source by the content width as well
RECURSIVE CopyRows_Dense(_, _, _, _, _)
CopyRows_Dense(pix, data, i, size, pitch) ==
    LET contentWidth == size.X * 4
        imgStart     == i * contentWidth
        dataStart    == i * contentWidth
        dataEnd      == dataStart + contentWidth
    IN
    IF i >= size.Y THEN [Pix |-> pix, panic |-> FALSE]
    ELSE IF dataEnd > Len(data) \/ imgStart > Len(pix) THEN [Pix |-> pix, panic |-> TRUE]
    ELSE CopyRows_Dense(CopyBytes(pix, imgStart, SubSeq(data, dataStart + 1, dataEnd)),
                        data, i + 1, size, pitch)

\* for i := 0; i < int(size.Y); i++ { copy(img.Pix[imgStart:], data[dataStart:dataEnd]); ... }
\* from row i on: the bytes of img.Pix, and whether a slice expression panicked
RECURSIVE CopyRows(_, _, _, _, _)
CopyRows(pix, data, i, size, pitch) ==
    LET contentWidth == size.X * 4
        dataWidth    == pitch
        imgStart     == i * contentWidth
        dataStart    == i * dataWidth
        dataEnd      == dataStart + contentWidth
    IN
    IF i >= size.Y THEN [Pix |-> pix, panic |-> FALSE]
    ELSE IF dataEnd > Len(data) \/ imgStart > Len(pix) THEN [Pix |-> pix, panic |-> TRUE]
    ELSE CopyRows(CopyBytes(pix, imgStart, SubSeq(data, dataStart + 1, dataEnd)),
                  data, i + 1, size, pitch)

\* swizzle.BGRA(p): bytes 0 and 2 of every 4-byte pixel swapped
BGRA(pix) ==
    [k \in 1..Len(pix) |->
        CASE (k - 1) % 4 = 0 /\ k + 2 <= Len(pix) -> pix[k + 2]
          [] (k - 1) % 4 = 2                      -> pix[k - 2]
          [] OTHER                                -> pix[k]]

\* data := unsafe.Slice((*byte)(mappedRect.PBits), int(mappedRect.Pitch) * int(size.Y))
MappedData(mappedRect, size) ==
    SubSeq(mappedRect.PBits, 1, Min(mappedRect.Pitch * size.Y, Len(mappedRect.PBits)))

\* the row loop on what Snapshot returned in r
RowsOf(r) ==
    CopyRows(r.s.img[1].Pix, MappedData(r.result.mapped[1], r.result.size[1]), 0,
             r.result.size[1], r.result.mapped[1].Pitch)

CopyInto(s, rows) == [Log(s, "copy rows", <<>>) EXCEPT !.img[1].Pix = rows.Pix]

\* if dup.needsSwizzle { swizzle.BGRA(img.Pix) }
Swizzle(s) ==
    IF s.dup.needsSwizzle
    THEN [Log(s, "swizzle.BGRA", <<>>) EXCEPT !.img[1].Pix = BGRA(@)]
    ELSE s

\* if dup.DrawPointer { dup.drawPointer(img) }
DrawIfAsked(s) == IF s.dup.DrawPointer THEN drawPointer(s) ELSE s

\* the unmap function Snapshot returned
UnmapOf(r) == IF r.result.detail = "fast" THEN "UnMapDesktopSurface" ELSE "surface.Unmap"

\* GetImage after a Snapshot that returned r without error; defer unmap() runs
\* on every way out
TransferPixels(r, rows, unmap) ==
    IF rows.panic
    THEN [Return(Log(CopyInto(r.s, rows), unmap, <<>>), "panic", "slice bounds out of range")
             EXCEPT !.result.size = r.result.size]
    ELSE [r EXCEPT !.s = Log(DrawIfAsked(Swizzle(CopyInto(r.s, rows))), unmap, <<>>)]

\* if err != nil { return err }
AfterSnapshot(r) ==
    IF r.result.kind # "ok" THEN r ELSE TransferPixels(r, RowsOf(r), UnmapOf(r))

\* func (dup *OutputDuplicator) GetImage(img, timeoutMs) error
\* s.img is the caller's img
GetImage(s, p) == AfterSnapshot(Snapshot(s, p))

----------------------------------------------------------------------------
(* The provider's answers during one Snapshot *)

HrOkFail == {"S_OK", "E_FAIL"}

\* the answers of a call the method does not reach are fixed to a default
When(reached, S, default) == IF reached THEN S ELSE {default}

Desc(inSysMem, dims) == [DesktopImageInSystemMemory |-> inSysMem, ModeDesc |-> dims]

\* desc := dxgi.DXGI_OUTDUPL_DESC{}, as GetDesc leaves it when it fails
Desc0 == Desc(FALSE, [Width |-> 0, Height |-> 0])

\* the description of a source that never changes, wide enough for its dirty rects
DescFixed == Desc(FALSE, [Width |-> MaxRects, Height |-> 1])

\* Each run varies one part of the provider's behaviour over its full set and
\* keeps the other parts to one value:
\*   "resolution"  the source description (dimensions, system-memory desktop);
\*                 the texture, staging and mapping calls can fail
\*   "rects"       the moved and dirty rects of a frame; their enumeration can fail
\*   "pointer"     the pointer updates of a frame; fetching the shape can fail
\*   "pixels"      the pixels of a frame, the padding of the mapped rows and the
\*                 path the frame is copied on (runs of SpecPixels)
\* GetDesc and AcquireNextFrame can fail in every run but those of "pixels",
\* where no call fails.
Envs == {"resolution", "rects", "pointer"}

\* the answers of a call that can fail only in runs of part e
HrIn(e, part) == IF e = part THEN HrOkFail ELSE {"S_OK"}

Descs(e) ==
    IF e = "resolution" THEN {Desc(b, d) : b \in BOOLEAN, d \in Dims} ELSE {DescFixed}

MoveAnswerLists(e) == IF e \in {"rects", "pixels"} THEN MoveLists ELSE {<<>>}

DirtyAnswerLists(e) == IF e = "rects" THEN RectLists ELSE {<<DirtyRect(1)>>}

\* the source descriptions of a run: in a run that follows the pixels, the
\* source has the dimensions of the caller's image m
SourceDescs(e, m) ==
    IF e = "pixels"
    THEN {Desc(b, [Width |-> m.Width, Height |-> m.Height]) : b \in BOOLEAN}
    ELSE Descs(e)

\* the dirty rects of a frame of dimensions d: in a run that follows the
\* pixels, one rect spanning the image
FrameDirtyLists(e, d) ==
    IF e = "pixels" THEN {<<RECT(0, 0, d.Width, d.Height)>>} ELSE DirtyAnswerLists(e)

\* a frame of one colour whose first and third byte differ
SolidColor == <<10, 20, 30, 40>>

SolidFrame(d) ==
    Texture(d.Width, d.Height, [k \in 1..(4 * d.Width * d.Height) |-> SolidColor[((k - 1) % 4) + 1]])

\* a frame all of whose bytes differ
RampFrame(d) == Texture(d.Width, d.Height, [k \in 1..(4 * d.Width * d.Height) |-> k])

\* the desktop images the provider hands out for a source of dimensions d
Frames(e, d) ==
    IF e = "pixels" THEN {SolidFrame(d), RampFrame(d)} ELSE {FilledTexture(d, 0)}

\* the caller's images in a run that follows the pixels: one and two columns
\* of two rows
ImageDims == {[Width |-> 1, Height |-> 2], [Width |-> 2, Height |-> 2]}

\* the padding the driver adds to a mapped row
Pads(e) == IF e = "pixels" THEN 0..MaxPad ELSE {0}

PointerPositions == {[Position |-> POINT(1, 1), Visible |-> TRUE]}

PointerPosition0 == [Position |-> POINT(0, 0), Visible |-> FALSE]

FrameInfo(acc, meta, time, pp, shapeSize) ==
    [AccumulatedFrames |-> acc, TotalMetadataBufferSize |-> meta,
     LastMouseUpdateTime |-> time, PointerPosition |-> pp,
     PointerShapeBufferSize |-> shapeSize]

FrameInfo0 == FrameInfo(0, 0, 0, PointerPosition0, 0)

\* frames without a pointer update, and (when the run varies the pointer) with one
FrameInfos(trackPointer) ==
    {FrameInfo(acc, meta, 0, PointerPosition0, 0) : acc \in {0, 1}, meta \in {0, 1}}
    \cup
    (IF trackPointer
     THEN {FrameInfo(f[1], f[2], 1, f[3], f[4]) :
             f \in {0, 1} \X {0, 1} \X PointerPositions \X {0, ShapeBytes}}
     ELSE {})

\* the record Snapshot reads the provider's answers from
Answer(descHr, desc, mapDesktopHr, acquireHr, info, shapeHr, shapeType, qiTexHr, stageHrs, mv, dr, mapHr) ==
    [descHr |-> descHr, desc |-> desc, mapDesktopHr |-> mapDesktopHr,
     acquireHr |-> acquireHr, frameInfo |-> info,
     shapeHr |-> shapeHr, shapeInfo |-> ShapeInfo(shapeType),
     shapeData |-> ShapeData(shapeType),
     qiTexHr |-> qiTexHr, texDesc |-> desc.ModeDesc,
     texDescHr |-> stageHrs[1], createTexHr |-> stageHrs[2], qiSurfaceHr |-> stageHrs[3],
     moveHr |-> mv[1], moveRects |-> mv[2],
     dirtyHr |-> dr[1], dirtyRects |-> dr[2],
     mapHr |-> mapHr]

\* answers of initializeStage's three calls: at most the first failure matters
StageHrs ==
    {<<"E_FAIL", "S_OK", "S_OK">>, <<"S_OK", "E_FAIL", "S_OK">>,
     <<"S_OK", "S_OK", "E_FAIL">>, <<"S_OK", "S_OK", "S_OK">>}

\* answers of a rect enumeration: a failure, or the rects of the frame
RectAnswers(e, lists) ==
    {<<"S_OK", l>> : l \in lists} \cup (IF e = "rects" THEN {<<"E_FAIL", <<>> >>} ELSE {})

----------------------------------------------------------------------------
(* The state machine *)

PointerInfo0 ==
    [pos |-> POINT(0, 0), size |-> POINT(0, 0), shapeInBuffer |-> <<>>,
     shapeOutBuffer |-> Nil, visible |-> FALSE]

\* &OutputDuplicator{device, deviceCtx, outputDuplication: dup, needsSwizzle, dxgiOutput}
\* with the exported option UpdatePointerInfo as the caller sets it
NewOutputDuplicator(needsSwizzle, updatePointerInfo) ==
    [outputDuplication |-> Ptr("IDXGIOutputDuplication"),
     dxgiOutput        |-> Ptr("IDXGIOutput5"),
     stagedTex         |-> Nil,
     surface           |-> Nil,
     size              |-> POINT(0, 0),
     pointerInfo       |-> PointerInfo0,
     UpdatePointerInfo |-> updatePointerInfo,
     dirtyRects        |-> Slice(0, <<>>),
     movedRects        |-> Slice(0, <<>>),
     DrawPointer       |-> FALSE,
     acquiredFrame     |-> FALSE,
     needsSwizzle      |-> needsSwizzle]

Init ==
    /\ env \in Envs
    /\ \E sw \in BOOLEAN, up \in When(env = "pointer", BOOLEAN, FALSE) :
           dup = NewOutputDuplicator(sw, up)
    /\ held = FALSE
    /\ calls = <<>>
    /\ lastOp = "new"
    /\ result = [kind |-> "ok", detail |-> "new", size |-> Nil, mapped |-> Nil]
    /\ seenDescs = [last |-> Nil, all |-> {}]
    /\ img = Ptr(NewRGBA(DescFixed.ModeDesc.Width, DescFixed.ModeDesc.Height))
    /\ tex = Nil
    /\ loop = Nil

\* the state a method starts from: the struct, the provider, an empty call
\* log, the caller's image
\* (desktop is Snapshot's local variable of that name; mappedRect is the field
\* dup.mappedRect, which is written by the two map calls and read only through
\* the pointer a successful Snapshot returns)
Entry ==
    [dup |-> dup, held |-> held, calls |-> <<>>, img |-> img, tex |-> tex,
     desktop |-> Nil, mappedRect |-> [Pitch |-> 0, PBits |-> <<>>]]

\* a panic ends the program
Running == result.kind # "panic"

\* the source descriptions observed, after a call whose log is c
Observe(c) ==
    LET got == SelectSeq(c, LAMBDA e : e.call = "GetDesc" /\ ~Failed(e.arg[1])) IN
    IF got = <<>> THEN seenDescs
    ELSE LET m == got[1].arg[2].ModeDesc IN
         [last |-> Ptr(m), all |-> seenDescs.all \cup {m}]

Finish(op, r) ==
    /\ dup' = r.s.dup
    /\ held' = r.s.held
    /\ calls' = r.s.calls
    /\ lastOp' = op
    /\ result' = r.result
    /\ seenDescs' = Observe(r.s.calls)
    /\ env' = env
    /\ img' = r.s.img
    /\ tex' = r.s.tex
    /\ loop' = loop

\* Snapshot or GetImage, for every sequence of answers the provider can give
\* to the calls the method reaches in state dup
Capture(op) ==
    \E descHr \in IF env = "pixels" THEN {"S_OK"} ELSE HrOkFail :
    \E desc \in When(~Failed(descHr), SourceDescs(env, img[1]), Desc0) :
    \E mapDesktopHr \in When(desc.DesktopImageInSystemMemory, HrIn(env, "resolution"), "S_OK") :
    LET acquire == ~Failed(descHr)
                   /\ ~(desc.DesktopImageInSystemMemory /\ ~Failed(mapDesktopHr)) IN
    \E acquireHr \in When(acquire /\ env # "pixels",
                           {"S_OK", "DXGI_ERROR_WAIT_TIMEOUT", "E_FAIL"}, "S_OK") :
    LET gotFrame == acquire /\ ~Failed(acquireHr) IN
    \E info \in When(gotFrame, FrameInfos(env = "pointer"), FrameInfo0) :
    LET shape == /\ gotFrame /\ dup.UpdatePointerInfo
                 /\ info.LastMouseUpdateTime # 0 /\ info.PointerShapeBufferSize # 0 IN
    \E shapeHr \in When(shape, HrIn(env, "pointer"), "S_OK") :
    \E shapeType \in When(shape /\ ~Failed(shapeHr), ShapeTypes, "COLOR") :
    LET queryTex == gotFrame /\ info.AccumulatedFrames # 0 IN
    \E qiTexHr \in When(queryTex, HrIn(env, "resolution"), "S_OK") :
    LET stage == queryTex /\ ~Failed(qiTexHr) IN
    \E stageHrs \in When(stage /\ IsNil(dup.stagedTex) /\ env = "resolution",
                          StageHrs, <<"S_OK", "S_OK", "S_OK">>) :
    LET rects == stage /\ info.TotalMetadataBufferSize > 0 IN
    \E mv \in When(rects, RectAnswers(env, MoveAnswerLists(env)), <<"S_OK", <<>> >>) :
    \E dr \in When(rects /\ ~Failed(mv[1]), RectAnswers(env, FrameDirtyLists(env, desc.ModeDesc)),
                    <<"S_OK", <<>> >>) :
    \E mapHr \in When(stage, HrIn(env, "resolution"), "S_OK") :
    \E desktop \in When(~Failed(descHr), Frames(env, desc.ModeDesc),
                         FilledTexture(desc.ModeDesc, 0)) :
    \E pitchPad \in When(stage \/ desc.DesktopImageInSystemMemory, Pads(env), 0) :
    LET p == Answer(descHr, desc, mapDesktopHr, acquireHr, info, shapeHr, shapeType,
                    qiTexHr, stageHrs, mv, dr, mapHr)
             @@ [desktop  |-> desktop,
                 texFill  |-> 0,
                 pitchPad |-> pitchPad]
    IN Finish(op, IF op = "GetImage" THEN GetImage(Entry, p) ELSE Snapshot(Entry, p))

CallSnapshot == Running /\ Capture("Snapshot")

CallGetImage == Running /\ Capture("GetImage")

CallReleaseFrame ==
    /\ Running
    /\ Finish("ReleaseFrame", Return(ReleaseFrame(Entry), "ok", "released"))

CallRelease ==
    /\ Running
    /\ Finish("Release", Return(Release(Entry), "ok", "released"))

Next == CallSnapshot \/ CallGetImage \/ CallReleaseFrame \/ CallRelease

Spec == Init /\ [][Next]_vars

----------------------------------------------------------------------------
(* The same methods in runs that follow the pixels of the frames *)

\* a duplicator as the constructor leaves it, and the caller's image, of the
\* dimensions of the source
InitPixels ==
    /\ env = "pixels"
    /\ \E sw \in BOOLEAN : dup = NewOutputDuplicator(sw, FALSE)
    /\ held = FALSE
    /\ calls = <<>>
    /\ lastOp = "new"
    /\ result = [kind |-> "ok", detail |-> "new", size |-> Nil, mapped |-> Nil]
    /\ seenDescs = [last |-> Nil, all |-> {}]
    /\ \E d \in ImageDims : img = Ptr(NewRGBA(d.Width, d.Height))
    /\ tex = Nil
    /\ loop = Nil

SpecPixels == InitPixels /\ [][Next]_vars

----------------------------------------------------------------------------
(* The rect loops of Snapshot, followed pass by pass *)

\* the first n rects of a frame
FrameRects(which, n) ==
    [i \in 1..n |-> IF which = "movedRects" THEN MoveRect ELSE DirtyRect(i)]

\* a provider bound by no contract: it answers hr and reports k as required,
\* whatever buffer it is given; when it succeeds it has written no more rects
\* than the buffer holds
AnyProvider(which, hr, k) ==
    [n \in 0..(MaxRects + MaxMoves + MaxRequired) |->
        LET written == IF Failed(hr) THEN 0 ELSE Min(k, n) IN
        [hr       |-> hr,
         required |-> IF Failed(hr) THEN k ELSE written,
         rects    |-> FrameRects(which, written)]]

RectHrs == {"S_OK", "DXGI_ERROR_MORE_DATA", "E_FAIL"}

\* not inside a rect loop
LoopLeft ==
    [pc |-> "left", required |-> 0, contract |-> TRUE,
     frame |-> [movedRects |-> <<>>, dirtyRects |-> <<>>], retried |-> FALSE]

StillRunning == [kind |-> "running", detail |-> "", size |-> Nil, mapped |-> Nil]

InitRetry ==
    /\ env = "retry"
    /\ dup = NewOutputDuplicator(FALSE, FALSE)
    /\ held = FALSE
    /\ calls = <<>>
    /\ lastOp = "new"
    /\ result = [kind |-> "ok", detail |-> "new", size |-> Nil, mapped |-> Nil]
    /\ seenDescs = [last |-> Nil, all |-> {}]
    /\ img = Nil
    /\ tex = Nil
    /\ loop = LoopLeft

\* if frameInfo.TotalMetadataBufferSize > 0 { moveRectsRequired := uint32(1)
\* Snapshot holds a frame with metadata and reaches the first loop; the frame
\* carries the rects mv and dr, and the provider honours the contract of
\* GetFrameRects or not
EnterRectLoops ==
    /\ loop.pc = "left"
    /\ \E contract \in BOOLEAN, mv \in MoveLists, dr \in RectLists :
           loop' = [pc |-> "movedRects", required |-> 1, contract |-> contract,
                    frame |-> [movedRects |-> mv, dirtyRects |-> dr],
                    retried |-> FALSE]
    /\ dup' = [dup EXCEPT !.acquiredFrame = TRUE]
    /\ held' = TRUE
    /\ calls' = <<>>
    /\ lastOp' = "Snapshot"
    /\ result' = StillRunning
    /\ UNCHANGED <<seenDescs, env, img, tex>>

\* one pass through the body of the loop Snapshot is in
RectLoopPass ==
    /\ loop.pc \in {"movedRects", "dirtyRects"}
    /\ \E hr \in RectHrs, k \in 0..MaxRequired :
         LET which    == loop.pc
             provider == IF loop.contract
                         THEN FrameProvider(IF hr = "E_FAIL" THEN hr ELSE "S_OK",
                                            loop.frame[which])
                         ELSE AnyProvider(which, hr, k)
             r        == enumRectsStep(Entry, which, loop.required, provider)
             \* defer dup.ReleaseFrame() on the way out of Snapshot
             out      == ReleaseFrame(r.s)
         IN
         CASE r.next = "continue" ->
                /\ loop' = [loop EXCEPT !.required = r.required, !.retried = TRUE]
                /\ dup' = r.s.dup /\ held' = r.s.held /\ calls' = r.s.calls
                /\ result' = StillRunning
           [] r.next = "return" ->
                /\ loop' = [loop EXCEPT !.pc = "left"]
                /\ dup' = out.dup /\ held' = out.held /\ calls' = out.calls
                /\ result' = Return(out, "error",
                                    IF which = "movedRects"
                                    THEN "failed to GetFrameMoveRects"
                                    ELSE "failed to GetFrameDirtyRects").result
           [] r.next = "break" /\ which = "movedRects" ->
                /\ loop' = [loop EXCEPT !.pc = "dirtyRects", !.required = 1,
                                        !.retried = FALSE]
                /\ dup' = r.s.dup /\ held' = r.s.held /\ calls' = r.s.calls
                /\ result' = StillRunning
           [] r.next = "break" /\ which = "dirtyRects" ->
                /\ loop' = [loop EXCEPT !.pc = "left"]
                /\ dup' = out.dup /\ held' = out.held /\ calls' = out.calls
                /\ result' = [StillRunning EXCEPT !.kind = "ok", !.detail = "rects retrieved"]
    /\ lastOp' = "Snapshot"
    /\ UNCHANGED <<seenDescs, env, img, tex>>

NextRetry == EnterRectLoops \/ RectLoopPass

\* a Snapshot inside a loop goes on running
SpecRetry == InitRetry /\ [][NextRetry]_vars /\ WF_vars(RectLoopPass)

----------------------------------------------------------------------------
(* updatePointer on the monochrome shapes a provider can hand out *)

\* widths of the shapes: within one byte per row, and across two
ShapeWidths == {1, 2, 9}

\* 1-bit-per-pixel bitmaps, by the rule that sets the bit of pixel (i, j)
BitPatterns == {"zeros", "ones", "rows", "columns", "checker"}

PatternBit(pat, i, j) ==
    CASE pat = "zeros"   -> 0
      [] pat = "ones"    -> 1
      [] pat = "rows"    -> j % 2
      [] pat = "columns" -> i % 2
      [] pat = "checker" -> (i + j + 1) % 2

\* byte b of row j of a bitmap of `width` pixels: pixel 8b is the top bit; the
\* bits past the width, and the bytes past the content, hold `fill`
BitmapByte(pat, width, j, b, fill) ==
    LET bit(n) == IF 8 * b + n < width THEN PatternBit(pat, 8 * b + n, j) ELSE fill IN
    128 * bit(0) + 64 * bit(1) + 32 * bit(2) + 16 * bit(3)
        + 8 * bit(4) + 4 * bit(5) + 2 * bit(6) + bit(7)

\* a monochrome shape as GetFramePointerShape returns it: the AND bitmap, then
\* the XOR bitmap, each of `height` rows of `pitch` bytes
MonochromeShape(width, height, pitch, andPat, xorPat, fill) ==
    [info |-> [Type |-> "MONOCHROME", Width |-> width, Height |-> 2 * height,
               Pitch |-> pitch],
     data |-> [k \in 1..(pitch * 2 * height) |->
                 LET r == (k - 1) \div pitch IN
                 BitmapByte(IF r < height THEN andPat ELSE xorPat,
                            width, r % height, (k - 1) % pitch, fill)]]

MonochromeShapes ==
    {MonochromeShape(w, h, ((w + 7) \div 8) + pad, a, x, fill) :
        w \in ShapeWidths, h \in 1..MaxShapeHeight, pad \in 0..MaxShapePad,
        a \in BitPatterns, x \in BitPatterns, fill \in {0, 1}}

\* the answers of GetFramePointerShape for shape sh
ShapeAnswer(sh) == [shapeHr |-> "S_OK", shapeInfo |-> sh.info, shapeData |-> sh.data]

\* a frame info that announces a pointer update with a shape of n bytes
ShapeFrameInfo(n) == FrameInfo(1, 0, 1, [Position |-> POINT(0, 0), Visible |-> TRUE], n)

InitShape ==
    /\ env = "shape"
    /\ dup = NewOutputDuplicator(FALSE, TRUE)
    /\ held = TRUE
    /\ calls = <<>>
    /\ lastOp = "new"
    /\ result = [kind |-> "ok", detail |-> "new", size |-> Nil, mapped |-> Nil]
    /\ seenDescs = [last |-> Nil, all |-> {}]
    /\ img = Nil
    /\ tex = Nil
    /\ loop = Nil

\* updatePointer, called by Snapshot on the frame it holds, for a new shape
CallUpdatePointer ==
    /\ lastOp = "new"
    /\ \E sh \in MonochromeShapes :
          LET u == updatePointer(Entry, ShapeFrameInfo(Len(sh.data)), ShapeAnswer(sh)) IN
          Finish("updatePointer",
                 IF IsNil(u.err) THEN Return(u.s, "ok", "pointer updated")
                 ELSE Return(u.s, "error", u.err[1]))

NextShape == CallUpdatePointer

SpecShape == InitShape /\ [][NextShape]_vars

----------------------------------------------------------------------------
(* DrawCursor on the pointer states and the images a caller can combine *)

\* decoded cursor pixels (R, G, B, A): transparent, transparent with a colour,
\* the adaptive marker, white, an opaque colour, a translucent black
CursorPixels ==
    {<<0, 0, 0, 0>>, <<10, 20, 30, 0>>, <<0, 0, 0, 255>>,
     <<255, 255, 255, 255>>, <<10, 20, 30, 255>>, <<0, 0, 0, 128>>}

\* a COLOR shape of 2 x 1 pixels that decodes to px1, px2: one row of BGRA
ColorShape(px1, px2) ==
    [info |-> [Type |-> "COLOR", Width |-> 2, Height |-> 1, Pitch |-> 8],
     data |-> <<px1[3], px1[2], px1[1], px1[4], px2[3], px2[2], px2[1], px2[4]>>]

\* the shapes a pointer update can bring: colour shapes, and the monochrome
\* shape of two pixels with both bits set
CursorShapes ==
    {ColorShape(a, b) : a \in CursorPixels, b \in CursorPixels}
    \cup {MonochromeShape(2, 1, 1, "ones", "ones", 0)}

\* pointer positions: inside the image, and partly or wholly outside it
CursorPositions == {POINT(x, y) : x \in {-1, 0, 1}, y \in {0, 1}}

\* a frame info that brings a pointer update at pos with a shape of n bytes
CursorFrameInfo(pos, n) == FrameInfo(1, 0, 1, [Position |-> pos, Visible |-> TRUE], n)

\* an opaque image of w x h pixels whose pixel (x, y) has the gray level level[x, y]
GrayImage(w, h, level) ==
    [Width |-> w, Height |-> h,
     Pix |-> [k \in 1..(4 * w * h) |->
                IF (k - 1) % 4 = 3 THEN 255
                ELSE level[((k - 1) \div 4) % w, ((k - 1) \div 4) \div w]]]

\* gray levels around the threshold, and far from it
GrayLevels == {0, 79, 80, 81, 82, 200}

\* the images handed to DrawCursor: one row wider than the sampled box, either
\* uniform, or with a far end that differs, or with alternating columns; and
\* images of the size of the cursor, of one row and of two
Backgrounds ==
    {GrayImage(24, 1, [x \in 0..23, y \in 0..0 |-> v]) : v \in GrayLevels}
    \cup {GrayImage(24, 1, [x \in 0..23, y \in 0..0 |-> IF x >= 23 THEN far ELSE 80]) : far \in {0, 200}}
    \cup {GrayImage(24, 1, [x \in 0..23, y \in 0..0 |-> IF x % 2 = 0 THEN 80 ELSE odd]) : odd \in {81, 82}}
    \cup {GrayImage(2, 1, [x \in 0..1, y \in 0..0 |-> v]) : v \in {79, 200}}
    \cup {GrayImage(2, 2, [x \in 0..1, y \in 0..1 |-> IF y = 0 THEN 200 ELSE v]) : v \in {79, 80, 82}}

\* a duplicator that tracks the pointer, inside a Snapshot that holds a frame
Tracking ==
    [dup |-> NewOutputDuplicator(FALSE, TRUE), held |-> TRUE, calls |-> <<>>, img |-> Nil]

InitCursor ==
    /\ env = "cursor"
    /\ \E sh \in CursorShapes, pos \in CursorPositions :
          dup = updatePointer(Tracking, CursorFrameInfo(pos, Len(sh.data)),
                              ShapeAnswer(sh)).s.dup
    /\ \E m \in Backgrounds : img = Ptr(m)
    /\ tex = Nil
    /\ loop = Nil
    /\ held = FALSE
    /\ calls = <<>>
    /\ lastOp = "new"
    /\ result = [kind |-> "ok", detail |-> "new", size |-> Nil, mapped |-> Nil]
    /\ seenDescs = [last |-> Nil, all |-> {}]

CallDrawCursor ==
    /\ ~IsNil(img)
    /\ Finish("DrawCursor", Return(DrawCursor(Entry), "ok", "drawn"))

NextCursor == CallDrawCursor

SpecCursor == InitCursor /\ [][NextCursor]_vars

----------------------------------------------------------------------------
(* What the last call did, read from its log *)

\* the entries of log c that are calls of `name`
Made(c, name) == SelectSeq(c, LAMBDA e : e.call = name)

Did(c, name) == Made(c, name) # <<>>

IsCapture(op) == op \in {"Snapshot", "GetImage"}

\* the answer of AcquireNextFrame in log c: its hr and the frame info
AcquireHr(c) == Made(c, "AcquireNextFrame")[1].arg[1]

AcquiredInfo(c) == Made(c, "AcquireNextFrame")[1].arg[2]

\* the call acquired a frame
GotFrame(c) == Did(c, "AcquireNextFrame") /\ AcquireHr(c) = "S_OK"

----------------------------------------------------------------------------
(* C1 *)

\* C1: at most one frame is acquired from the provider at any time.  No call
\* invokes AcquireNextFrame while a frame acquired earlier is unreleased, and
\* no call returns with a frame still acquired, so that the next Snapshot
\* acquires from a provider that holds none.
C1_AtMostOneFrame ==
    /\ \A i \in 1..Len(calls) : calls[i].call = "AcquireNextFrame" => ~calls[i].held
    /\ ~held

\* a capture released the frame flagged by an earlier call and then acquired a frame
C1_Witness ==
    /\ IsCapture(lastOp)
    /\ GotFrame(calls)
    /\ \E i, j \in 1..Len(calls) :
          /\ i < j
          /\ calls[i].call = "ReleaseFrame"
          /\ calls[j].call = "AcquireNextFrame"

----------------------------------------------------------------------------
(* C2 *)

\* C2: whenever Snapshot returns after calling AcquireNextFrame, on every exit
\* path, the duplicator holds no frame: acquiredFrame is false and the provider
\* holds no unreleased frame.
C2_NoFrameHeldOnReturn ==
    (IsCapture(lastOp) /\ Did(calls, "AcquireNextFrame") /\ result.kind # "panic")
        => (~dup.acquiredFrame /\ ~held)

----------------------------------------------------------------------------
(* C3 *)

\* C3: Snapshot returns ErrNoImageYet both when AcquireNextFrame times out and
\* when it succeeds with AccumulatedFrames == 0, whatever UpdatePointerInfo is
\* and whatever pointer update the frame carries.
C3_TransientNoFrame ==
    (IsCapture(lastOp) /\ Did(calls, "AcquireNextFrame"))
        => /\ AcquireHr(calls) = "DXGI_ERROR_WAIT_TIMEOUT"
                => result.kind = "ErrNoImageYet"
           /\ (AcquireHr(calls) = "S_OK" /\ AcquiredInfo(calls).AccumulatedFrames = 0)
                => result.kind = "ErrNoImageYet"

----------------------------------------------------------------------------
(* C4 *)

\* the step is a capture that ended in the transient no-frame condition
TransientStep == IsCapture(lastOp') /\ result'.kind = "ErrNoImageYet"

\* C4 as stated: a Snapshot that ends in the transient no-frame condition
\* leaves the whole duplicator state (acquiredFrame, staging surface, size,
\* rect buffers, needsSwizzle, pointer state) as it was before the call.
C4_StateUnaffected == [][TransientStep => dup' = dup]_vars

\* C4 as amended: a Snapshot that ends in the transient no-frame condition
\* leaves the staging texture, its surface, the rect buffers and needsSwizzle
\* as they were; it leaves size as it was unless it tried the system-memory
\* fast path first, and the pointer state as it was unless UpdatePointerInfo is
\* set and the frame carries a pointer update (LastMouseUpdateTime # 0).
C4_TransientLeavesCaptureState ==
    [][TransientStep =>
        /\ dup'.stagedTex = dup.stagedTex
        /\ dup'.surface = dup.surface
        /\ dup'.dirtyRects = dup.dirtyRects
        /\ dup'.movedRects = dup.movedRects
        /\ dup'.needsSwizzle = dup.needsSwizzle
        /\ ~Did(calls', "MapDesktopSurface") => dup'.size = dup.size
        /\ ~(/\ dup.UpdatePointerInfo
              /\ GotFrame(calls')
              /\ AcquiredInfo(calls').LastMouseUpdateTime # 0)
             => dup'.pointerInfo = dup.pointerInfo
    ]_vars

\* a frame without pointer update and without accumulated frames arrived at a
\* duplicator that tracks the pointer and has a staging surface, filled rect
\* buffers and a pointer position
C4_Witness ==
    /\ IsCapture(lastOp)
    /\ result.kind = "ErrNoImageYet"
    /\ GotFrame(calls)
    /\ AcquiredInfo(calls).LastMouseUpdateTime = 0
    /\ dup.UpdatePointerInfo
    /\ dup.pointerInfo.visible
    /\ ~IsNil(dup.surface)
    /\ dup.dirtyRects.cap > 0

----------------------------------------------------------------------------
(* C5 *)

\* C5: ReleaseFrame called twice in a row, or Release called twice in a row,
\* makes the second call a no-op: it makes no provider ReleaseFrame call and no
\* Release call on the staging texture, the surface, the duplication handle or
\* the output.
C5_ReleaseIdempotent ==
    [][((lastOp = "ReleaseFrame" /\ lastOp' = "ReleaseFrame")
        \/ (lastOp = "Release" /\ lastOp' = "Release"))
       => calls' = <<>>]_vars

\* Release has run on a duplicator that was released before (the first Release
\* always releases the duplication handle) and called nothing
C5_Witness ==
    /\ lastOp = "Release"
    /\ calls = <<>>
    /\ IsNil(dup.outputDuplication)
    /\ IsNil(dup.dxgiOutput)

----------------------------------------------------------------------------
(* C6 *)

\* the rects the provider reported to the last enumeration of `which` in log c
Reported(c, which) ==
    LET g == Made(c, "GetFrame:" \o which) IN g[Len(g)].arg[2]

\* the call got as far as copying into the staging texture
CopyReached ==
    result.detail \in {"staging", "failed to surface_.Map",
                       "nil pointer dereference: dup.surface"}

\* C6: for an acquired frame with AccumulatedFrames > 0 that Snapshot copies
\* into the staging texture: without metadata there is exactly one full copy;
\* with metadata and no moved rects there is one sub-region copy per reported
\* dirty rect, in order, with the rect as box and its left/top as destination,
\* and no full copy; with metadata and moved rects there is exactly one full
\* copy and no sub-region copy.
C6_CopySelection ==
    (/\ IsCapture(lastOp)
     /\ GotFrame(calls)
     /\ AcquiredInfo(calls).AccumulatedFrames > 0
     /\ CopyReached)
    => LET full == Made(calls, "CopyResource2D")
           sub  == Made(calls, "CopySubresourceRegion2D")
       IN
       IF AcquiredInfo(calls).TotalMetadataBufferSize = 0
       THEN Len(full) = 1 /\ sub = <<>>
       ELSE IF Reported(calls, "movedRects") = <<>>
            THEN LET dirty == Reported(calls, "dirtyRects") IN
                 /\ full = <<>>
                 /\ Len(sub) = Len(dirty)
                 /\ \A i \in 1..Len(dirty) :
                       /\ sub[i].arg.box = dirty[i]
                       /\ sub[i].arg.dstX = dirty[i].Left
                       /\ sub[i].arg.dstY = dirty[i].Top
            ELSE Len(full) = 1 /\ sub = <<>>

\* a frame with metadata, no moved rects and two or more dirty rects was copied
C6_Witness ==
    /\ IsCapture(lastOp)
    /\ result.kind = "ok"
    /\ Len(Made(calls, "CopySubresourceRegion2D")) >= 2

----------------------------------------------------------------------------
(* C7 *)

\* C7: a failure in either step of creating the staging surface leaves no
\* staging texture behind, so that the next Snapshot creates it again: no
\* state has a staging texture without its surface view.
C7_StageNeverHalfBuilt ==
    /\ result.detail = "failed to InitializeStage" => IsNil(dup.stagedTex)
    /\ ~IsNil(dup.stagedTex) => ~IsNil(dup.surface)

----------------------------------------------------------------------------
(* C8 *)

SizeOf(d) == POINT(d.Width, d.Height)

\* in duplicator d with observations sd, after call op returned res: the
\* staging texture, and the size of a successful staging-path capture, have
\* the dimensions of the description observed last
StageMatchesLatest(d, sd, op, res) ==
    /\ ~IsNil(d.stagedTex) => d.stagedTex = sd.last
    /\ (IsCapture(op) /\ res.kind = "ok" /\ res.detail = "staging")
         => res.size = Ptr(SizeOf(sd.last[1]))

\* C8 as stated: with a source description that may change between calls,
\* the staging surface, and the size a successful staging-path Snapshot
\* returns, always have the dimensions of the description observed last.
C8_StageMatchesLatestDesc == StageMatchesLatest(dup, seenDescs, lastOp, result)

\* C8 as amended: as long as every observed source description has the same
\* dimensions, the staging surface and the size a successful staging-path
\* Snapshot returns have those dimensions; and an existing staging texture is
\* never recreated, whatever the description observed later.
C8_StageKeepsCreationDesc ==
    [][/\ Cardinality(seenDescs'.all) <= 1
            => StageMatchesLatest(dup', seenDescs', lastOp', result')
       /\ (~IsNil(dup.stagedTex) /\ ~IsNil(dup'.stagedTex))
            => dup'.stagedTex = dup.stagedTex
    ]_vars

\* a staging-path capture succeeded on a staging texture made by an earlier call
C8_Witness ==
    /\ IsCapture(lastOp)
    /\ result.kind = "ok"
    /\ result.detail = "staging"
    /\ ~Did(calls, "CreateTexture2D")
    /\ Cardinality(seenDescs.all) = 1

----------------------------------------------------------------------------
(* C9 *)

\* log c allocates the buffer `which` anew
Reallocated(c, which) ==
    \E i \in 1..Len(c) : c[i].call = "make" /\ c[i].arg[1] = which

\* C9: the moved-rect and dirty-rect buffers only grow.  A frame whose rect
\* count (zero included) fits the capacity of a buffer allocated by an earlier
\* frame keeps that buffer (no new allocation, same capacity); a frame that
\* needs more gets a buffer of at least that count.
C9_GrowthOnly ==
    [][IsCapture(lastOp') =>
        \A which \in {"movedRects", "dirtyRects"} :
            LET g == Made(calls', "GetFrame:" \o which) IN
            (dup[which].cap > 0 /\ g # <<>> /\ g[Len(g)].arg[1] = "S_OK") =>
                LET n == Len(g[Len(g)].arg[2]) IN
                IF n <= dup[which].cap
                THEN dup'[which].cap = dup[which].cap /\ ~Reallocated(calls', which)
                ELSE dup'[which].cap >= n
    ]_vars

----------------------------------------------------------------------------
(* C10 *)

\* C10: when a Snapshot with UpdatePointerInfo acquires a frame with
\* AccumulatedFrames > 0 whose pointer shape has an unsupported type, the
\* shape size is reset to zero and the frame is still captured and returned.
C10_UnsupportedShapeNonFatal ==
    (/\ IsCapture(lastOp)
     /\ GotFrame(calls)
     /\ AcquiredInfo(calls).AccumulatedFrames > 0
     /\ dup.UpdatePointerInfo
     /\ Did(calls, "GetFramePointerShape")
     /\ Made(calls, "GetFramePointerShape")[1].arg[1] = "S_OK"
     /\ Made(calls, "GetFramePointerShape")[1].arg[2].Type = "OTHER")
    => /\ dup.pointerInfo.size = POINT(0, 0)
       /\ result.detail # "unsupported type"
       /\ Did(calls, "desktop.QueryInterface")
       /\ result.kind = "ok"

----------------------------------------------------------------------------
(* C11 *)

\* the mapping table of the monochrome decode: AND bit, XOR bit -> R, G, B, A
MonochromeTable(andBit, xorBit) ==
    CASE andBit = 0 /\ xorBit = 0 -> <<0, 0, 0, 0>>
      [] andBit = 0 /\ xorBit = 1 -> <<255, 255, 255, 255>>
      [] andBit = 1 /\ xorBit = 0 -> <<0, 0, 0, 0>>
      [] andBit = 1 /\ xorBit = 1 -> <<0, 0, 0, 255>>

\* bit i of row j of the bitmap that starts at byte `base` of data, rows
\* `pitch` bytes apart
BitAt(data, base, pitch, i, j) ==
    (data[base + j * pitch + (i \div 8) + 1] \div (2 ^ (7 - (i % 8)))) % 2

\* C11: after updatePointer decodes a monochrome shape of any width, true
\* height (reported height / 2) and row pitch >= ceil(width / 8), the decoded
\* pixel (i, j) is the table entry of the AND bit and the XOR bit at (i, j) of
\* the two pitch-padded bitmaps.
C11_MonochromeDecode ==
    (lastOp = "updatePointer" /\ result.kind = "ok") =>
        LET g      == Made(calls, "GetFramePointerShape")[1]
            pi     == g.arg[2]
            data   == g.arg[3]
            height == pi.Height \div 2
        IN \A i \in 0..(pi.Width - 1), j \in 0..(height - 1) :
              PixelAt(dup.pointerInfo.shapeOutBuffer[1], i, j)
                  = MonochromeTable(BitAt(data, 0, pi.Pitch, i, j),
                                    BitAt(data, pi.Pitch * height, pi.Pitch, i, j))

\* the same for shapes whose rows are not padded (pitch = ceil(width / 8))
C11_MonochromeDecodeUnpadded ==
    (lastOp = "updatePointer" /\ result.kind = "ok"
     /\ LET pi == Made(calls, "GetFramePointerShape")[1].arg[2]
        IN pi.Pitch = (pi.Width + 7) \div 8)
    => C11_MonochromeDecode

----------------------------------------------------------------------------
(* C14 *)

\* the pixels of image m sampled around the cursor of pointer state pi: the
\* cursor's bounding box widened by the margin, inside the image, outside the
\* cursor itself
Ring(pi, m) ==
    {xy \in (0..(m.Width - 1)) \X (0..(m.Height - 1)) :
        /\ xy[1] >= pi.pos.X - sampleSize
        /\ xy[1] <= pi.pos.X + pi.size.X + sampleSize
        /\ xy[2] >= pi.pos.Y - sampleSize
        /\ xy[2] <= pi.pos.Y + pi.size.Y + sampleSize
        /\ ~InFootprint(pi, xy[1], xy[2])}

RECURSIVE SumLuma(_, _)
SumLuma(m, S) ==
    IF S = {} THEN 0
    ELSE LET xy == CHOOSE e \in S : TRUE IN
         Luma(PixelAt(m, xy[1], xy[2])) + SumLuma(m, S \ {xy})

\* the integer mean of the luma over a non-empty ring
RingMean(pi, m) == SumLuma(m, Ring(pi, m)) \div Cardinality(Ring(pi, m))

\* the background of the cursor is light
LightBackground(pi, m) == Ring(pi, m) # {} /\ RingMean(pi, m) > 80

AdaptiveMarker == <<0, 0, 0, 255>>

OpaqueBlack == <<0, 0, 0, 255>>

OpaqueWhite == <<255, 255, 255, 255>>

\* C14: DrawCursor writes exactly these pixels.  For every pixel (i, j) of the
\* decoded shape whose target pos + (i, j) lies in the image: alpha 0 leaves
\* the target as it was; the adaptive marker is written as opaque black on a
\* light background and as opaque white on a dark one; any other pixel is
\* written verbatim.  Every pixel outside the cursor's footprint, and the
\* size of the image, stay as they were.
C14_CursorCompositing ==
    [][lastOp' = "DrawCursor" =>
        LET m   == img[1]
            out == img'[1]
            pi  == dup.pointerInfo
        IN /\ out.Width = m.Width /\ out.Height = m.Height /\ Len(out.Pix) = Len(m.Pix)
           /\ \A x \in 0..(m.Width - 1), y \in 0..(m.Height - 1) :
                 IF ~InFootprint(pi, x, y) THEN PixelAt(out, x, y) = PixelAt(m, x, y)
                 ELSE LET col == PixelAt(pi.shapeOutBuffer[1], x - pi.pos.X, y - pi.pos.Y) IN
                      IF col[4] = 0 THEN PixelAt(out, x, y) = PixelAt(m, x, y)
                      ELSE IF col = AdaptiveMarker
                           THEN PixelAt(out, x, y) =
                                  IF LightBackground(pi, m) THEN OpaqueBlack ELSE OpaqueWhite
                           ELSE PixelAt(out, x, y) = col
    ]_vars

\* a cursor at the origin of a wide image was drawn: its first pixel, a colour
\* with alpha 0, left the image as it was, its second pixel was written
C14_Witness ==
    /\ lastOp = "DrawCursor"
    /\ dup.pointerInfo.pos = POINT(0, 0)
    /\ PixelAt(dup.pointerInfo.shapeOutBuffer[1], 0, 0) = <<10, 20, 30, 0>>
    /\ PixelAt(dup.pointerInfo.shapeOutBuffer[1], 1, 0) = <<0, 0, 0, 128>>
    /\ img[1].Width = 24
    /\ PixelAt(img[1], 0, 0) = <<80, 80, 80, 255>>
    /\ PixelAt(img[1], 1, 0) = <<0, 0, 0, 128>>

----------------------------------------------------------------------------
(* C15 *)

\* C15: the background is light iff the sampled ring is not empty and the
\* integer mean of its luma is strictly greater than 80.  Every adaptive
\* marker pixel drawn is opaque black iff the background is light and opaque
\* white otherwise; on a ring of uniform luma v it is white for v <= 80 and
\* black for v > 80, and white when nothing is sampled.
C15_BrightnessThreshold ==
    [][lastOp' = "DrawCursor" =>
        LET m    == img[1]
            out  == img'[1]
            pi   == dup.pointerInfo
            ring == Ring(pi, m)
            lumas == {Luma(PixelAt(m, xy[1], xy[2])) : xy \in ring}
        IN \A x \in 0..(m.Width - 1), y \in 0..(m.Height - 1) :
              (/\ InFootprint(pi, x, y)
               /\ PixelAt(pi.shapeOutBuffer[1], x - pi.pos.X, y - pi.pos.Y) = AdaptiveMarker)
              => /\ PixelAt(out, x, y) \in {OpaqueBlack, OpaqueWhite}
                 /\ PixelAt(out, x, y) = OpaqueBlack
                      <=> (ring # {} /\ SumLuma(m, ring) \div Cardinality(ring) > 80)
                 /\ ring = {} => PixelAt(out, x, y) = OpaqueWhite
                 /\ \A v \in lumas :
                       lumas = {v} => PixelAt(out, x, y) =
                                        IF v > 80 THEN OpaqueBlack ELSE OpaqueWhite
    ]_vars

\* an adaptive marker pixel was drawn white on a wide background whose luma is
\* exactly 80 everywhere
C15_Witness ==
    /\ lastOp = "DrawCursor"
    /\ dup.pointerInfo.pos = POINT(0, 0)
    /\ PixelAt(dup.pointerInfo.shapeOutBuffer[1], 0, 0) = AdaptiveMarker
    /\ PixelAt(dup.pointerInfo.shapeOutBuffer[1], 1, 0) = <<0, 0, 0, 0>>
    /\ img[1].Width = 24
    /\ \A x \in 1..23 : PixelAt(img[1], x, 0) = <<80, 80, 80, 255>>
    /\ PixelAt(img[1], 0, 0) = OpaqueWhite

----------------------------------------------------------------------------
(* C16 *)

\* C16: channel swizzling is sticky.  Once needsSwizzle is true no call resets
\* it, and every GetImage that succeeds from then on swizzles its output,
\* whatever metadata its frame reports.
C16_SwizzleSticky ==
    [][dup.needsSwizzle =>
         /\ dup'.needsSwizzle
         /\ (lastOp' = "GetImage" /\ result'.kind = "ok") => Did(calls', "swizzle.BGRA")
    ]_vars

\* a GetImage swizzled the output of a frame that came with metadata
C16_Witness ==
    /\ lastOp = "GetImage"
    /\ result.kind = "ok"
    /\ GotFrame(calls)
    /\ AcquiredInfo(calls).TotalMetadataBufferSize > 0
    /\ Did(calls, "CopySubresourceRegion2D")
    /\ Did(calls, "swizzle.BGRA")

----------------------------------------------------------------------------
(* C17 *)

FrameDataCalls == {"GetFramePointerShape", "GetFrame:movedRects", "GetFrame:dirtyRects"}

\* in log c, call i is made on the frame acquired by this log: a successful
\* AcquireNextFrame precedes it with no ReleaseFrame in between, the provider
\* holds the frame, and the frame's ReleaseFrame follows
OnHeldFrame(c, i) ==
    /\ c[i].held
    /\ \E j \in 1..(i - 1) :
          /\ c[j].call = "AcquireNextFrame"
          /\ c[j].arg[1] = "S_OK"
          /\ \A k \in (j + 1)..(i - 1) : c[k].call # "ReleaseFrame"
    /\ \E k \in (i + 1)..Len(c) : c[k].call = "ReleaseFrame"

\* C17: in every Snapshot, each GetFramePointerShape, GetFrameMoveRects and
\* GetFrameDirtyRects call happens after the successful AcquireNextFrame of
\* that Snapshot and before the provider ReleaseFrame for that frame.
C17_FrameDataWhileHeld ==
    IsCapture(lastOp) =>
        \A i \in 1..Len(calls) : calls[i].call \in FrameDataCalls => OnHeldFrame(calls, i)

\* a Snapshot fetched the pointer shape and the rects of its frame
C17_Witness ==
    /\ IsCapture(lastOp)
    /\ dup.UpdatePointerInfo
    /\ Did(calls, "GetFramePointerShape")
    /\ Did(calls, "GetFrame:movedRects")
    /\ Did(calls, "GetFrame:dirtyRects")

----------------------------------------------------------------------------
(* C18 *)

\* C18: the pointer state (position, visibility, shape size, raw and decoded
\* shape buffers) is left as it was by a Snapshot with UpdatePointerInfo
\* disabled, by a Snapshot that acquires no frame (a failure before or at
\* AcquireNextFrame, the fast path), and by a Snapshot whose frame has
\* LastMouseUpdateTime == 0.
C18_PointerStateOnlyByUpdate ==
    [][(/\ IsCapture(lastOp')
        /\ \/ ~dup.UpdatePointerInfo
           \/ ~GotFrame(calls')
           \/ AcquiredInfo(calls').LastMouseUpdateTime = 0)
       => dup'.pointerInfo = dup.pointerInfo
    ]_vars

\* a duplicator that does not track the pointer captured a frame that carries
\* a pointer update with a new shape
C18_Witness ==
    /\ IsCapture(lastOp)
    /\ ~dup.UpdatePointerInfo
    /\ GotFrame(calls)
    /\ AcquiredInfo(calls).LastMouseUpdateTime # 0
    /\ AcquiredInfo(calls).PointerShapeBufferSize # 0
    /\ result.kind = "ok"

----------------------------------------------------------------------------
(* C20 *)

\* C20: acquiredFrame is true only if the provider holds a frame acquired by
\* this duplicator, and the provider's ReleaseFrame is never invoked when no
\* frame is held.
C20_FlagTruthful ==
    /\ dup.acquiredFrame => held
    /\ \A i \in 1..Len(calls) : calls[i].call = "ReleaseFrame" => calls[i].held

----------------------------------------------------------------------------
(* C12: the pixel transfer of GetImage *)

\* the byte of the mapped memory m that byte b of row y of the output comes from
SourceByte(m, y, b, swapped) ==
    LET c == b % 4
        from == IF ~swapped THEN b
                ELSE IF c = 0 THEN b + 2 ELSE IF c = 2 THEN b - 2 ELSE b
    IN m.PBits[y * m.Pitch + from + 1]

\* C12: after a GetImage that succeeds on a source of the dimensions of the
\* caller's image, whose rows are mapped with a pitch of width*4 plus some
\* padding, the image holds exactly width*4*height bytes, row y of it is the
\* first width*4 bytes of mapped row y (bytes 0 and 2 of every pixel swapped
\* when needsSwizzle is set), and no padding byte is in it.
C12_PixelTransfer ==
    (/\ lastOp = "GetImage" /\ result.kind = "ok"
     /\ img[1].Width = result.size[1].X /\ img[1].Height = result.size[1].Y) =>
        LET m    == result.mapped[1]
            size == result.size[1]
            out  == img[1].Pix
            cw   == 4 * size.X
        IN /\ m.Pitch >= cw
           /\ Len(out) = cw * size.Y
           /\ \A y \in 0..(size.Y - 1), b \in 0..(cw - 1) :
                  out[y * cw + b + 1] = SourceByte(m, y, b, dup.needsSwizzle)
           /\ \A k \in 1..Len(out) : out[k] # PadByte

\* a GetImage of a frame of distinct bytes, two pixels wide, two rows high,
\* mapped with padding, and swizzled
C12_Witness ==
    /\ lastOp = "GetImage" /\ result.kind = "ok" /\ result.detail # "fast"
    /\ result.size[1] = POINT(2, 2)
    /\ result.mapped[1].Pitch > 8
    /\ dup.needsSwizzle
    /\ img[1].Pix = <<3, 2, 1, 4, 7, 6, 5, 8, 11, 10, 9, 12, 15, 14, 13, 16>>

----------------------------------------------------------------------------
(* C13: the dirty-rect path against the full-copy path *)

\* the answers of the provider for the source and the frame of the capture
\* logged in c, mapped as in result res, when the frame reports metadata of
\* size meta and the moved rects `moves`
SameFrame(c, res, meta, moves) ==
    LET desc == Made(c, "GetDesc")[1].arg[2]
        acq  == Made(c, "AcquireNextFrame")[1].arg
        whole == RECT(0, 0, desc.ModeDesc.Width, desc.ModeDesc.Height)
    IN Answer("S_OK", desc, "S_OK", "S_OK",
              [acq[2] EXCEPT !.TotalMetadataBufferSize = meta],
              "S_OK", "COLOR", "S_OK", <<"S_OK", "S_OK", "S_OK">>,
              <<"S_OK", moves>>, <<"S_OK", <<whole>> >>, "S_OK")
       @@ [desktop  |-> acq[3],
           texFill  |-> 0,
           pitchPad |-> res.mapped[1].Pitch - 4 * desc.ModeDesc.Width]

\* the image GetImage leaves when the duplicator of this state takes the frame
\* of the capture logged in c through the full-copy path
FullCopyImage(c, res, meta, moves) == GetImage(Entry, SameFrame(c, res, meta, moves)).s.img

\* this step is a GetImage on a fresh duplicator that takes a solid-colour
\* frame with no moved rects and one dirty rect spanning the image
DirtyPathOnFresh ==
    /\ lastOp = "new" /\ lastOp' = "GetImage" /\ result'.kind = "ok"
    /\ Did(calls', "AcquireNextFrame")
    /\ LET acq  == Made(calls', "AcquireNextFrame")[1].arg
           desc == Made(calls', "GetDesc")[1].arg[2]
           cp   == Made(calls', "CopySubresourceRegion2D")
       IN /\ acq[3] = SolidFrame(desc.ModeDesc)
          /\ Len(cp) = 1
          /\ cp[1].arg.box = RECT(0, 0, desc.ModeDesc.Width, desc.ModeDesc.Height)
          /\ dup'.movedRects.data = <<>>

\* C13 as stated: the image of the dirty-rect path equals the image of the
\* full-copy path, both for a frame reporting zero metadata and for a frame
\* reporting a non-empty set of moved rects.
C13_DirtyEqualsFullCopy ==
    [][DirtyPathOnFresh =>
          /\ img' = FullCopyImage(calls', result', 0, <<>>)
          /\ img' = FullCopyImage(calls', result', 1, <<MoveRect>>)]_vars

\* C13, amended: the image of the dirty-rect path equals the image of the
\* full-copy path taken for a non-empty set of moved rects; the full-copy path
\* taken for zero metadata gives the same image with bytes 0 and 2 of every
\* pixel swapped, and the same image when needsSwizzle was set at construction.
C13_DirtyEqualsFullCopyUpToSwizzle ==
    [][DirtyPathOnFresh =>
          /\ img' = FullCopyImage(calls', result', 1, <<MoveRect>>)
          /\ FullCopyImage(calls', result', 0, <<>>) =
                IF dup.needsSwizzle THEN img'
                ELSE Ptr([img'[1] EXCEPT !.Pix = BGRA(@)])]_vars

\* a solid-colour frame of two by two pixels taken through the dirty-rect path
\* by a duplicator constructed without swizzling, padding in the mapped rows
C13_Witness ==
    /\ lastOp = "GetImage" /\ result.kind = "ok"
    /\ Len(Made(calls, "CopySubresourceRegion2D")) = 1
    /\ Made(calls, "CopySubresourceRegion2D")[1].arg.box = RECT(0, 0, 2, 2)
    /\ ~dup.needsSwizzle
    /\ result.mapped[1].Pitch > 8
    /\ img[1].Pix = <<10, 20, 30, 40, 10, 20, 30, 40, 10, 20, 30, 40, 10, 20, 30, 40>>

----------------------------------------------------------------------------
(* C19: the rect loops *)

InRectLoop == loop.pc \in {"movedRects", "dirtyRects"}

\* every pass calls the provider with a buffer of at least the required count
RetriesWithGrownBuffer == [][InRectLoop => dup'[loop.pc].cap >= loop.required]_vars

\* Snapshot has returned an error for an answer DXGI_ERROR_MORE_DATA
MoreDataSurfaced ==
    /\ result.kind = "error"
    /\ \E i \in 1..Len(calls) :
          /\ calls[i].call \in {"GetFrame:movedRects", "GetFrame:dirtyRects"}
          /\ calls[i].arg[1] = "DXGI_ERROR_MORE_DATA"

\* C19 as stated: for any sequence of answers of the provider, every pass
\* runs on a buffer grown to the required count, DXGI_ERROR_MORE_DATA is never
\* returned as an error, and a Snapshot inside a rect loop eventually leaves it.
C19_RetryLoopsTerminate ==
    /\ RetriesWithGrownBuffer
    /\ []~MoreDataSurfaced
    /\ InRectLoop ~> ~InRectLoop

\* C19, amended: every pass runs on a buffer grown to the required count and
\* DXGI_ERROR_MORE_DATA is never returned as an error; when the provider
\* answers DXGI_ERROR_MORE_DATA only for a buffer shorter than the frame's rect
\* count and reports that count, a loop that retried leaves on its next pass,
\* so a Snapshot inside a rect loop eventually leaves it.
C19_RetryLoopsTerminateUnderContract ==
    /\ RetriesWithGrownBuffer
    /\ []~MoreDataSurfaced
    /\ [][(InRectLoop /\ loop.contract /\ loop.retried) => loop'.pc # loop.pc]_vars
    /\ (InRectLoop /\ loop.contract) ~> ~InRectLoop

\* a provider honouring the contract answered "more data" for the dirty rects,
\* and Snapshot left the loop with both rects of the frame
C19_Witness ==
    /\ loop # Nil /\ loop.pc = "left" /\ loop.contract /\ loop.retried
    /\ result.kind = "ok"
    /\ Len(dup.dirtyRects.data) = 2

====
